---- MODULE Spec2Model ----
(***************************************************************************)
(* A model of the HTTP server: the worker pool (threadpool.rs), the accept *)
(* loop (main.rs) and the request decoder (http.rs).                       *)
(*                                                                         *)
(* Byte strings are sequences of one-character strings, so that the        *)
(* decoder's string operations (read_line, ends_with, split, split_once,   *)
(* trim, to_lowercase, parse) are computed character by character.         *)
(***************************************************************************)
EXTENDS Integers, Sequences, FiniteSets, TLC

(***************************************************************************)
(* Bounds of the model.                                                    *)
(***************************************************************************)
\* largest size handed to ThreadPool::build (main.rs builds a pool of 4)
MaxSize == 2
\* number of connections the listener yields
MaxJobs == 3
\* number of header lines the peer sends before the end of its header section
MaxHeaders == 2

(***************************************************************************)
(* Characters and string helpers.                                          *)
(***************************************************************************)
CR == "\r"
LF == "\n"
SP == " "
COLON == ":"
CRLF == <<CR, LF>>

UpperChars == <<"A","B","C","D","E","F","G","H","I","J","K","L","M",
                "N","O","P","Q","R","S","T","U","V","W","X","Y","Z">>
LowerChars == <<"a","b","c","d","e","f","g","h","i","j","k","l","m",
                "n","o","p","q","r","s","t","u","v","w","x","y","z">>
Digits == <<"0","1","2","3","4","5","6","7","8","9">>

\* char::to_lowercase on the ASCII range
lower_char(c) ==
    IF \E i \in 1..26 : UpperChars[i] = c
    THEN LowerChars[CHOOSE i \in 1..26 : UpperChars[i] = c]
    ELSE c

\* str::to_lowercase
to_lowercase(s) == [i \in 1..Len(s) |-> lower_char(s[i])]

\* char::is_whitespace, on the characters the model sends
is_whitespace(c) == c \in {SP, CR, LF, "\t"}

\* str::trim: drop leading and trailing whitespace
trim(s) ==
    LET keep == {i \in 1..Len(s) : ~is_whitespace(s[i])}
    IN  IF keep = {} THEN <<>>
        ELSE LET lo == CHOOSE i \in keep : \A j \in keep : i <= j
                 hi == CHOOSE i \in keep : \A j \in keep : j <= i
             IN  SubSeq(s, lo, hi)

\* s.ends_with("\r\n")
ends_with_crlf(s) ==
    /\ Len(s) >= 2
    /\ s[Len(s) - 1] = CR
    /\ s[Len(s)] = LF

\* index of the first occurrence of c in s, 0 when there is none
find(s, c) ==
    IF \E i \in 1..Len(s) : s[i] = c
    THEN CHOOSE i \in 1..Len(s) : s[i] = c /\ \A j \in 1..(i - 1) : s[j] # c
    ELSE 0

\* str::split(c): the pieces between the occurrences of c, empty pieces kept
RECURSIVE split(_, _)
split(s, c) ==
    LET i == find(s, c)
    IN  IF i = 0 THEN <<s>>
        ELSE <<SubSeq(s, 1, i - 1)>> \o split(SubSeq(s, i + 1, Len(s)), c)

\* value of a decimal digit
digit_value(c) == (CHOOSE i \in 1..10 : Digits[i] = c) - 1
is_digit(c) == \E i \in 1..10 : Digits[i] = c

RECURSIVE digits_value(_)
digits_value(s) ==
    IF s = <<>> THEN 0
    ELSE 10 * digits_value(SubSeq(s, 1, Len(s) - 1)) + digit_value(s[Len(s)])

\* str::parse::<usize>: an optional '+' then one or more decimal digits
\* (values of the model stay far below usize::MAX)
parse_usize(s) ==
    LET t == IF s # <<>> /\ s[1] = "+" THEN Tail(s) ELSE s
    IN  IF t = <<>> \/ \E i \in 1..Len(t) : ~is_digit(t[i])
        THEN [ok |-> FALSE, value |-> 0]
        ELSE [ok |-> TRUE, value |-> digits_value(t)]

\* BufRead::read_line from position pos (bytes already consumed): the bytes up
\* to and including the next LF, or up to the end of the stream when the peer
\* closed before sending one
read_line(input, pos) ==
    LET rest == SubSeq(input, pos + 1, Len(input))
        i == find(rest, LF)
    IN  IF i = 0 THEN rest ELSE SubSeq(rest, 1, i)

(***************************************************************************)
(* http.rs: request decode.                                                *)
(***************************************************************************)
sGet == <<"g","e","t">>
sPost == <<"p","o","s","t">>
sHttp11 == <<"h","t","t","p","/","1",".","1">>
sContentLength == <<"c","o","n","t","e","n","t","-","l","e","n","g","t","h">>

NoErr == "none"

\* HttpMethod::from_str (strum, ascii_case_insensitive)
HttpMethod_from_str(tok) ==
    CASE to_lowercase(tok) = sGet  -> [err |-> NoErr, value |-> "Get"]
      [] to_lowercase(tok) = sPost -> [err |-> NoErr, value |-> "Post"]
      [] OTHER -> [err |-> "StrumParseError", value |-> "unset"]

\* HttpVersion::from_str (strum, ascii_case_insensitive)
HttpVersion_from_str(tok) ==
    IF to_lowercase(tok) = sHttp11
    THEN [err |-> NoErr, value |-> "V1_1"]
    ELSE [err |-> "StrumParseError", value |-> "unset"]

\* a mutant of parts_len_ok: the token count is only checked from below
parts_len_ok_atleast(parts) == Len(parts) >= 3

\* the test of `if parts.len() != 3`
parts_len_ok(parts) == Len(parts) = 3

\* a mutant of HttpHeader_try_from: a line without ':' becomes a header
\* whose value is empty
HttpHeader_try_from_lenient(line) ==
    IF ~ends_with_crlf(line)
    THEN [err |-> "MissingCRLFFromLine", key |-> <<>>, value |-> <<>>]
    ELSE LET body == SubSeq(line, 1, Len(line) - 2)
             i == find(body, COLON)
         IN  IF i = 0
             THEN [err |-> NoErr, key |-> trim(body), value |-> <<>>]
             ELSE [err |-> NoErr,
                   key |-> trim(SubSeq(body, 1, i - 1)),
                   value |-> trim(SubSeq(body, i + 1, Len(body)))]

\* HttpHeader::try_from(String)
HttpHeader_try_from(line) ==
    IF ~ends_with_crlf(line)
    THEN [err |-> "MissingCRLFFromLine", key |-> <<>>, value |-> <<>>]
    ELSE LET body == SubSeq(line, 1, Len(line) - 2)
             i == find(body, COLON)
         IN  IF i = 0
             THEN [err |-> "InvalidHeader", key |-> <<>>, value |-> <<>>]
             ELSE [err |-> NoErr,
                   key |-> trim(SubSeq(body, 1, i - 1)),
                   value |-> trim(SubSeq(body, i + 1, Len(body)))]

NoBody == [tag |-> "None", bytes |-> <<>>]

\* the decoder's locals before its first read
DecodeStart ==
    [pc |-> "request_line", pos |-> 0, lines |-> <<>>,
     method |-> "unset", path |-> <<>>, version |-> "unset",
     headers |-> <<>>, content_length |-> 0, body |-> NoBody,
     err |-> NoErr, errline |-> <<>>]

Fail(d, kind, line) == [d EXCEPT !.pc = "err", !.err = kind, !.errline = line]

\* HttpRequest::try_from, the request line: read it, require CRLF, split it
\* on ' ' into method, path and version
StepRequestLine(input, d) ==
    LET s == read_line(input, d.pos)
        d1 == [d EXCEPT !.pos = d.pos + Len(s), !.lines = Append(d.lines, s)]
    IN  IF ~ends_with_crlf(s) THEN Fail(d1, "MissingCRLFFromLine", <<>>)
        ELSE LET t == SubSeq(s, 1, Len(s) - 2)
                 parts == split(t, SP)
             IN  IF ~parts_len_ok(parts) THEN Fail(d1, "InvalidRequestLine", t)
                 ELSE LET m == HttpMethod_from_str(parts[1])
                          v == HttpVersion_from_str(parts[3])
                      IN  IF m.err # NoErr THEN Fail(d1, m.err, <<>>)
                          ELSE IF v.err # NoErr THEN Fail(d1, v.err, <<>>)
                          ELSE [d1 EXCEPT !.pc = "headers",
                                          !.method = m.value,
                                          !.path = parts[2],
                                          !.version = v.value]

\* a mutant of StepHeader: the first Content-Length is kept, later ones are
\* only added to the list
StepHeader_first_wins(input, d) ==
    LET s == read_line(input, d.pos)
        d1 == [d EXCEPT !.pos = d.pos + Len(s), !.lines = Append(d.lines, s)]
    IN  IF Len(s) <= 2 THEN [d1 EXCEPT !.pc = "body"]
        ELSE LET h == HttpHeader_try_from(s)
             IN  IF h.err # NoErr THEN Fail(d1, h.err, <<>>)
                 ELSE LET hdr == [key |-> h.key, value |-> h.value]
                          n == parse_usize(h.value)
                          seen == \E i \in 1..Len(d.headers) :
                                      to_lowercase(d.headers[i].key) = sContentLength
                      IN  IF to_lowercase(h.key) = sContentLength
                          THEN IF ~n.ok THEN Fail(d1, "ParseIntError", <<>>)
                               ELSE [d1 EXCEPT !.content_length =
                                                   IF seen THEN d.content_length ELSE n.value,
                                               !.headers = Append(d.headers, hdr)]
                          ELSE [d1 EXCEPT !.headers = Append(d.headers, hdr)]

\* a mutant of StepHeader: only a bare CRLF ends the header section, any
\* other line of at most 2 bytes is skipped
StepHeader_skip_short(input, d) ==
    LET s == read_line(input, d.pos)
        d1 == [d EXCEPT !.pos = d.pos + Len(s), !.lines = Append(d.lines, s)]
    IN  IF s = CRLF THEN [d1 EXCEPT !.pc = "body"]
        ELSE IF Len(s) <= 2 THEN d1
        ELSE LET h == HttpHeader_try_from(s)
             IN  IF h.err # NoErr THEN Fail(d1, h.err, <<>>)
                 ELSE LET hdr == [key |-> h.key, value |-> h.value]
                          n == parse_usize(h.value)
                      IN  IF to_lowercase(h.key) = sContentLength
                          THEN IF ~n.ok THEN Fail(d1, "ParseIntError", <<>>)
                               ELSE [d1 EXCEPT !.content_length = n.value,
                                               !.headers = Append(d.headers, hdr)]
                          ELSE [d1 EXCEPT !.headers = Append(d.headers, hdr)]

\* HttpRequest::try_from, one turn of the header loop: read a line, leave the
\* loop when it holds at most 2 bytes, else parse it as a header and note a
\* Content-Length
StepHeader(input, d) ==
    LET s == read_line(input, d.pos)
        d1 == [d EXCEPT !.pos = d.pos + Len(s), !.lines = Append(d.lines, s)]
    IN  IF Len(s) <= 2 THEN [d1 EXCEPT !.pc = "body"]
        ELSE LET h == HttpHeader_try_from(s)
             IN  IF h.err # NoErr THEN Fail(d1, h.err, <<>>)
                 ELSE LET hdr == [key |-> h.key, value |-> h.value]
                          n == parse_usize(h.value)
                      IN  IF to_lowercase(h.key) = sContentLength
                          THEN IF ~n.ok THEN Fail(d1, "ParseIntError", <<>>)
                               ELSE [d1 EXCEPT !.content_length = n.value,
                                               !.headers = Append(d.headers, hdr)]
                          ELSE [d1 EXCEPT !.headers = Append(d.headers, hdr)]

\* a mutant of StepBody: the body read stops one byte short
StepBody_one_short(input, d) ==
    IF d.content_length = 0 THEN [d EXCEPT !.pc = "ok"]
    ELSE IF Len(input) - d.pos < d.content_length
         THEN Fail([d EXCEPT !.pos = Len(input)], "IoError", <<>>)
         ELSE [d EXCEPT !.pc = "ok",
                        !.pos = d.pos + d.content_length - 1,
                        !.body = [tag |-> "Text",
                                  bytes |-> SubSeq(input, d.pos + 1,
                                                   d.pos + d.content_length - 1)]]

\* HttpRequest::try_from, the body: none when content_length is 0, else
\* exactly content_length bytes (read_exact fails when the peer closed before
\* sending them)
StepBody(input, d) ==
    IF d.content_length = 0 THEN [d EXCEPT !.pc = "ok"]
    ELSE IF Len(input) - d.pos < d.content_length
         THEN Fail([d EXCEPT !.pos = Len(input)], "IoError", <<>>)
         ELSE [d EXCEPT !.pc = "ok",
                        !.pos = d.pos + d.content_length,
                        !.body = [tag |-> "Text",
                                  bytes |-> SubSeq(input, d.pos + 1,
                                                   d.pos + d.content_length)]]

DecodeStep(input, d) ==
    CASE d.pc = "request_line" -> StepRequestLine(input, d)
      [] d.pc = "headers" -> StepHeader(input, d)
      [] d.pc = "body" -> StepBody(input, d)
      [] OTHER -> d

\* HttpRequest::try_from run to its end
RECURSIVE HttpRequest_try_from_run(_, _)
HttpRequest_try_from_run(input, d) ==
    IF d.pc \in {"ok", "err"} THEN d
    ELSE HttpRequest_try_from_run(input, DecodeStep(input, d))

HttpRequest_try_from(input) == HttpRequest_try_from_run(input, DecodeStart)

(***************************************************************************)
(* http.rs: responses, compression and response encode.                    *)
(***************************************************************************)
sHttpVersion == <<"H","T","T","P","/","1",".","1">>
sOk200 == <<"2","0","0"," ","O","K">>
sNotFound404 == <<"4","0","4"," ","N","o","t"," ","F","o","u","n","d">>
sCreated201 == <<"2","0","1"," ","C","r","e","a","t","e","d">>
\* main.rs names HttpStatus::InternalServerError500, which http.rs does not
\* define; its text is the reason phrase of status 500
sInternalServerError500 == <<"5","0","0"," ","I","n","t","e","r","n","a","l"," ","S","e","r","v","e","r"," ","E","r","r","o","r">>
sContentLengthKey == <<"C","o","n","t","e","n","t","-","L","e","n","g","t","h">>
sContentTypeKey == <<"C","o","n","t","e","n","t","-","T","y","p","e">>
sContentEncodingKey == <<"C","o","n","t","e","n","t","-","E","n","c","o","d","i","n","g">>
sGzip == <<"g","z","i","p">>
sTextPlain == <<"t","e","x","t","/","p","l","a","i","n">>
sOctetStream == <<"a","p","p","l","i","c","a","t","i","o","n","/","o","c","t","e","t","-","s","t","r","e","a","m">>

\* HttpVersion::as_ref
HttpVersion_as_ref(v) == sHttpVersion

\* HttpStatus::as_ref
HttpStatus_as_ref(st) ==
    CASE st = "Ok200" -> sOk200
      [] st = "NotFound404" -> sNotFound404
      [] st = "Created201" -> sCreated201
      [] st = "InternalServerError500" -> sInternalServerError500

\* usize::to_string
RECURSIVE usize_to_string(_)
usize_to_string(n) ==
    IF n < 10 THEN <<Digits[n + 1]>>
    ELSE usize_to_string(n \div 10) \o <<Digits[(n % 10) + 1]>>

\* From<HttpBody> for Vec<u8>: the bytes of either variant
HttpBody_into(body) == body.bytes

\* Option<HttpBody> mapped to bytes, empty when the body is None
body_bytes(body) == IF body.tag = "None" THEN <<>> ELSE HttpBody_into(body)

\* flate2's GzEncoder, a library outside the repository: its output is
\* modelled as a frame around the input (the 10 header bytes, one deflate
\* block, the CRC32 and the length), never equal to the input
GzipHeader == <<"1f","8b","08","00","00","00","00","00","00","ff">>
GzipTrailer(bytes) == <<"crc32", "crc32", "crc32", "crc32">> \o
                      <<"isize", "isize", "isize", "isize">>
GzEncoder(bytes) == GzipHeader \o <<"block">> \o bytes \o GzipTrailer(bytes)

\* HttpBody::gzip_compress
gzip_compress(body) == [tag |-> "Gzip", bytes |-> GzEncoder(HttpBody_into(body))]

\* HttpResponse::empty_response
empty_response(st) ==
    [status |-> st, version |-> "V1_1",
     headers |-> <<[key |-> sContentLengthKey, value |-> <<"0">>]>>,
     body |-> NoBody]

\* HttpResponse::content_response(content, content_type)
content_response(content, content_type) ==
    [status |-> "Ok200", version |-> "V1_1",
     headers |-> <<[key |-> sContentTypeKey, value |-> content_type],
                   [key |-> sContentLengthKey, value |-> usize_to_string(Len(content))]>>,
     body |-> [tag |-> "Text", bytes |-> content]]

\* the tokens of a comma separated Accept-Encoding value, each trimmed
encoding_tokens(accepted_encodings) ==
    LET parts == split(accepted_encodings, ",")
    IN  [i \in 1..Len(parts) |-> trim(parts[i])]

\* some token is exactly "gzip"
gzip_accepted(accepted_encodings) ==
    \E i \in 1..Len(encoding_tokens(accepted_encodings)) :
        encoding_tokens(accepted_encodings)[i] = sGzip

NotContentLength(h) == to_lowercase(h.key) # sContentLength

\* a mutant of add_compression: the Content-Length header of the
\* uncompressed body is kept
add_compression_keeps_length(r, accepted_encodings) ==
    IF ~gzip_accepted(accepted_encodings) THEN r
    ELSE LET body == IF r.body.tag = "None" THEN NoBody ELSE gzip_compress(r.body)
             content_length == Len(body_bytes(body))
         IN  [r EXCEPT !.body = body,
                       !.headers = r.headers \o
                           <<[key |-> sContentEncodingKey, value |-> sGzip],
                             [key |-> sContentLengthKey,
                              value |-> usize_to_string(content_length)]>>]

\* HttpResponse::add_compression: at the first token "gzip" the body, when
\* there is one, is compressed, the Content-Length headers are removed and
\* Content-Encoding: gzip and the new Content-Length are pushed; other
\* tokens do nothing
add_compression(r, accepted_encodings) ==
    IF ~gzip_accepted(accepted_encodings) THEN r
    ELSE LET body == IF r.body.tag = "None" THEN NoBody ELSE gzip_compress(r.body)
             content_length == Len(body_bytes(body))
         IN  [r EXCEPT !.body = body,
                       !.headers = SelectSeq(r.headers, NotContentLength) \o
                           <<[key |-> sContentEncodingKey, value |-> sGzip],
                             [key |-> sContentLengthKey,
                              value |-> usize_to_string(content_length)]>>]

\* From<HttpHeader> for Vec<u8>: "{key}: {value}\r\n"
HttpHeader_into(h) == h.key \o <<COLON, SP>> \o h.value \o CRLF

RECURSIVE headers_bytes(_)
headers_bytes(hs) ==
    IF hs = <<>> THEN <<>> ELSE HttpHeader_into(Head(hs)) \o headers_bytes(Tail(hs))

\* a mutant of HttpResponse_into: a CRLF follows the body
HttpResponse_into_trailing_crlf(r) ==
    HttpVersion_as_ref(r.version) \o <<SP>> \o HttpStatus_as_ref(r.status) \o CRLF
        \o headers_bytes(r.headers) \o CRLF \o body_bytes(r.body) \o CRLF

\* From<HttpResponse> for Vec<u8>
HttpResponse_into(r) ==
    HttpVersion_as_ref(r.version) \o <<SP>> \o HttpStatus_as_ref(r.status) \o CRLF
        \o headers_bytes(r.headers) \o CRLF \o body_bytes(r.body)

(***************************************************************************)
(* Byte streams a peer sends before it closes its side of the connection.  *)
(***************************************************************************)
RequestLines ==
    { <<"G","E","T"," ","/"," ","H","T","T","P","/","1",".","1">>,
      <<"p","o","s","t"," ","/","f"," ","h","t","t","p","/","1",".","1">>,
      <<"G","E","T"," ","/">>,
      <<"G","E","T"," "," ","/"," ","H","T","T","P","/","1",".","1">>,
      <<>>,
      <<"P","U","T"," ","/"," ","H","T","T","P","/","1",".","1">>,
      <<"G","E","T"," ","/"," ","H","T","T","P","/","1",".","0">> }

HeaderLines ==
    { <<"H","o","s","t",":"," ","x">>,
      <<"a","b","c">>,
      <<"a">>,
      <<"C","o","n","t","e","n","t","-","L","e","n","g","t","h",":"," ","2">>,
      <<"c","o","n","t","e","n","t","-","l","e","n","g","t","h",":"," ","0">>,
      <<"C","o","n","t","e","n","t","-","L","e","n","g","t","h",":"," ","x">> }

\* a line ends with CRLF or, from a careless peer, with a bare LF
LineEnds == { CRLF, <<LF>> }

\* what follows the header lines: the blank line and a body, or the end of
\* the stream with or without an unterminated line
Tails ==
    { CRLF,
      CRLF \o <<"h","i">>,
      CRLF \o <<"h">>,
      <<>>,
      <<"a","b">>,
      <<"a","b","c">> }

RECURSIVE HeaderBlocks(_)
HeaderBlocks(n) ==
    IF n = 0 THEN {<<>>}
    ELSE LET shorter == HeaderBlocks(n - 1)
         IN  shorter \cup {b \o h \o e : b \in shorter, h \in HeaderLines, e \in LineEnds}

Inputs ==
    {r \o e \o b \o t : r \in RequestLines, e \in LineEnds,
                        b \in HeaderBlocks(MaxHeaders), t \in Tails}

(***************************************************************************)
(* main.rs: one connection, as a job sees it.                              *)
(***************************************************************************)
\* the connections the listener yields: the bytes the peer sends, and whether
\* the peer still reads when the response is written
\* no response built yet
NoResponse == [status |-> "none", version |-> "V1_1", headers |-> <<>>, body |-> NoBody]

\* the responses and Accept-Encoding values the response functions are
\* applied to
Statuses == {"Ok200", "NotFound404", "Created201"}
Contents == {<<>>, <<"a","b","c">>, <<"h","e","l","l","o",","," ","w","o","r","l","d">>}
ContentTypes == {sTextPlain, sOctetStream}
Responses ==
    {empty_response(st) : st \in Statuses} \cup
    {content_response(c, ty) : c \in Contents, ty \in ContentTypes}
AcceptedEncodings ==
    { <<"N","o","n","e">>, sGzip, <<"d","e","f","l","a","t","e",","," ","g","z","i","p">>, <<"g","z","i","p",",","b","r">>, <<"G","Z","I","P">>, <<"g","z","i","p","x">>, <<" ","g","z","i","p"," ">>, <<>> }

(***************************************************************************)
(* main.rs: handle_connection.                                             *)
(***************************************************************************)
sAcceptEncoding == <<"a","c","c","e","p","t","-","e","n","c","o","d","i","n","g">>
sUserAgent == <<"U","s","e","r","-","A","g","e","n","t">>
sNone == <<"N","o","n","e">>
sRoot == <<"/">>
sEchoPrefix == <<"/","e","c","h","o","/">>
sUserAgentPath == <<"/","u","s","e","r","-","a","g","e","n","t">>
sFilesPrefix == <<"/","f","i","l","e","s","/">>

\* str::starts_with
starts_with(s, p) == Len(s) >= Len(p) /\ SubSeq(s, 1, Len(p)) = p

\* header_map.get(k): the map is filled in header order under the
\* lower-cased key, so a later header replaces an earlier one
header_map_get(headers, k) ==
    LET idx == {i \in 1..Len(headers) : to_lowercase(headers[i].key) = k}
    IN  IF idx = {} THEN [found |-> FALSE, value |-> <<>>]
        ELSE [found |-> TRUE,
              value |-> headers[CHOOSE i \in idx : \A j \in idx : j <= i].value]

\* the Accept-Encoding value of the request, "None" without the header
accepted_encodings_of(headers) ==
    LET h == header_map_get(headers, sAcceptEncoding)
    IN  IF h.found THEN h.value ELSE sNone

\* what the file system and the peer do to this connection
Envs ==
    [writable : BOOLEAN, file_exists : BOOLEAN, read_ok : BOOLEAN,
     dir_exists : BOOLEAN, write_ok : BOOLEAN, compress_ok : BOOLEAN]
DefaultEnv ==
    [writable |-> TRUE, file_exists |-> TRUE, read_ok |-> TRUE,
     dir_exists |-> TRUE, write_ok |-> TRUE, compress_ok |-> TRUE]
FileContent == <<"h","i">>

RouteOk(r) == [kind |-> "ok", resp |-> r, failure |-> "none"]
RouteErr(e) == [kind |-> "err", resp |-> NoResponse, failure |-> e]
RoutePanic == [kind |-> "panic", resp |-> NoResponse, failure |-> "panic"]

\* HttpResponse::content_response(content, content_type, accepted_encodings)
\* as handle_connection calls it: the response of content_response,
\* compressed when gzip is accepted, or Err(CanNotCompress) when the
\* compression fails
content_response3(content, content_type, accepted_encodings, env) ==
    IF gzip_accepted(accepted_encodings) /\ ~env.compress_ok
    THEN RouteErr("CanNotCompress")
    ELSE RouteOk(add_compression(content_response(content, content_type),
                                 accepted_encodings))

\* the match on the path, before .unwrap_or
route_match(req, env) ==
    LET accepted_encodings == accepted_encodings_of(req.headers)
        ua == header_map_get(req.headers, to_lowercase(sUserAgent))
    IN  IF req.path = sRoot THEN RouteOk(empty_response("Ok200"))
        ELSE IF starts_with(req.path, sEchoPrefix)
        THEN content_response3(SubSeq(req.path, 7, Len(req.path)), sTextPlain,
                               accepted_encodings, env)
        ELSE IF req.path = sUserAgentPath
        THEN IF ~ua.found THEN RouteOk(empty_response("NotFound404"))
             ELSE content_response3(ua.value, sTextPlain, accepted_encodings, env)
        ELSE IF starts_with(req.path, sFilesPrefix)
        THEN IF req.method = "Get"
             THEN IF ~env.file_exists THEN RouteOk(empty_response("NotFound404"))
                  ELSE IF ~env.read_ok THEN RoutePanic
                  ELSE content_response3(FileContent, sOctetStream,
                                         accepted_encodings, env)
             ELSE IF ~env.dir_exists THEN RouteOk(empty_response("NotFound404"))
                  ELSE IF req.body.tag = "None" THEN RoutePanic
                  ELSE IF ~env.write_ok THEN RouteErr("IoError")
                  ELSE RouteOk(empty_response("Created201"))
        ELSE RouteOk(empty_response("NotFound404"))

\* the match followed by .unwrap_or(empty_response(InternalServerError500)):
\* an Err that content_response returned becomes the 500 response; the `?`
\* on std::fs::write has already returned from handle_connection
route(req, env) ==
    LET m == route_match(req, env)
    IN  IF m.kind = "err" /\ m.failure = "CanNotCompress"
        THEN [kind |-> "ok", resp |-> empty_response("InternalServerError500"),
              failure |-> m.failure]
        ELSE m

\* a mutant of request_decoded: the request is handed over once its
\* headers are read
request_decoded_before_body(d) == d.pc \in {"body", "ok"}

\* HttpRequest::try_from(&mut reader)? has returned the request
request_decoded(d) == d.pc = "ok"

\* the byte streams and environments of the connections handled step by step
ConnRequestLines ==
    { <<"G","E","T"," ","/"," ","H","T","T","P","/","1",".","1">>, <<"G","E","T"," ","/","e","c","h","o","/","a","b","c"," ","H","T","T","P","/","1",".","1">>, <<"G","E","T"," ","/","u","s","e","r","-","a","g","e","n","t"," ","H","T","T","P","/","1",".","1">>, <<"G","E","T"," ","/","f","i","l","e","s","/","f"," ","H","T","T","P","/","1",".","1">>, <<"P","O","S","T"," ","/","f","i","l","e","s","/","f"," ","H","T","T","P","/","1",".","1">>, <<"G","E","T"," ","/","n","o","p","e"," ","H","T","T","P","/","1",".","1">>, <<"G","E","T"," ","/">> }
ConnHeaderBlocks ==
    { ae \o ua \o cl :
        ae \in {<<>>, <<"A","c","c","e","p","t","-","E","n","c","o","d","i","n","g",":"," ","g","z","i","p","\r","\n">>, <<"A","c","c","e","p","t","-","E","n","c","o","d","i","n","g",":"," ","b","r","\r","\n">>},
        ua \in {<<>>, <<"U","s","e","r","-","A","g","e","n","t",":"," ","x","\r","\n">>},
        cl \in {<<>>, <<"C","o","n","t","e","n","t","-","L","e","n","g","t","h",":"," ","2","\r","\n">>} }
ConnInputs ==
    { rl \o CRLF \o hb \o CRLF \o b :
        rl \in ConnRequestLines, hb \in ConnHeaderBlocks, b \in {<<>>, <<"h","i">>} }
    \cup { <<"G","E","T"," ","/"," ","H","T","T","P","/","1",".","1","\r","\n">>, <<"P","O","S","T"," ","/","f","i","l","e","s","/","f"," ","H","T","T","P","/","1",".","1","\r","\n","C","o","n","t","e","n","t","-","L","e","n","g","t","h",":"," ","2","\r","\n","\r","\n","h">> }

Conns ==
    { [input |-> <<"G","E","T"," ","/"," ","H","T","T","P","/","1",".","1","\r","\n","\r","\n">>, writable |-> TRUE],
      [input |-> <<"G","E","T"," ","/","\r","\n","\r","\n">>, writable |-> TRUE],
      [input |-> <<"G","E","T"," ","/"," ","H","T","T","P","/","1",".","1","\r","\n","\r","\n">>, writable |-> FALSE] }

\* handle_connection, as far as its result goes: Err when the request does
\* not decode (the `?` on HttpRequest::try_from), when building the response
\* returns early or panics, or when write_all fails on a connection the peer
\* has left; Ok when a response was written
handle_connection(c) ==
    LET r == HttpRequest_try_from(c.input)
        o == route(r, [DefaultEnv EXCEPT !.writable = c.writable])
    IN  IF r.pc = "err" THEN [ok |-> FALSE, err |-> r.err]
        ELSE IF o.kind # "ok" THEN [ok |-> FALSE, err |-> o.failure]
        ELSE IF ~c.writable THEN [ok |-> FALSE, err |-> "IoError"]
        ELSE [ok |-> TRUE, err |-> NoErr]

\* the job main() submits: handle_connection(..).expect("Could not build
\* response") panics when handle_connection returns Err
job_panics(c) == ~handle_connection(c).ok

(***************************************************************************)
(* State.                                                                  *)
(***************************************************************************)
VARIABLES
    mainPc,      \* where the main thread is
    panicking,   \* the main thread is unwinding from a panic of execute
    lastAccept,  \* the outcome of the last listener.incoming() item
    size,        \* the size the pool was built with
    sender,      \* ThreadPool.sender is Some
    queue,       \* the channel's buffer: ids of the jobs sent and not received
    lock,        \* the worker holding the Mutex around the Receiver
    wpc,         \* where each worker thread is
    cur,         \* the job each worker holds
    jobs,        \* every job sent, by id: its connection and what became of it
    joinIdx,     \* Drop: the worker being joined
    input,       \* decode: the bytes the peer sends before closing
    dec,         \* decode: the locals of HttpRequest::try_from
    resp,        \* the HttpResponse being built
    wire,        \* the bytes the response was turned into
    hc           \* where the code handling the response is, and its inputs

poolVars == <<mainPc, panicking, lastAccept, size, sender, queue, lock, wpc,
              cur, jobs, joinIdx>>
respVars == <<resp, wire, hc>>
decVars == <<input, dec, resp, wire, hc>>
vars == <<mainPc, panicking, lastAccept, size, sender, queue, lock, wpc,
          cur, jobs, joinIdx, input, dec, resp, wire, hc>>

WorkerIds == 0..(MaxSize - 1)
NoOwner == -1
NoJob == 0

\* a worker thread that has not ended: it holds a clone of the
\* Arc<Mutex<Receiver>>
Alive(w) == wpc[w] \in {"lock", "recv", "run"}

\* the Receiver lives as long as one clone of the Arc does; build() drops its
\* own clone when it returns
ReceiverAlive == \E w \in WorkerIds : Alive(w)

\* the process ends when main returns or when its panic has unwound
ProcessAlive == mainPc \in {"build", "accept", "drop", "join"}

(***************************************************************************)
(* threadpool.rs: ThreadPool::build.                                       *)
(***************************************************************************)
\* a mutant of ThreadPool_build: the size is not checked
ThreadPool_build_unchecked(sz) == [err |-> NoErr, workers |-> 0..(sz - 1)]

\* ThreadPool::build(size): the error, or the ids of the workers spawned
ThreadPool_build(sz) ==
    IF sz = 0 THEN [err |-> "InvalidPoolSize", workers |-> {}]
    ELSE [err |-> NoErr, workers |-> 0..(sz - 1)]

\* main: `let pool = ThreadPool::build(..)?`
Build ==
    /\ mainPc = "build"
    /\ \E sz \in 0..MaxSize :
          LET r == ThreadPool_build(sz)
          IN  /\ size' = sz
              /\ wpc' = [w \in WorkerIds |-> IF w \in r.workers THEN "lock" ELSE "none"]
              /\ sender' = (r.err = NoErr)
              /\ mainPc' = IF r.err = NoErr THEN "accept" ELSE "build_err"
    /\ UNCHANGED <<panicking, lastAccept, queue, lock, cur, jobs, joinIdx>>
    /\ UNCHANGED decVars

(***************************************************************************)
(* main.rs: the accept loop, and ThreadPool::execute.                      *)
(***************************************************************************)
NewJob(c) == [conn |-> c, receivedBy |-> {}, runs |-> 0, result |-> "pending"]

\* Ok(stream): the job is sent; send fails once the Receiver is gone, and
\* `.expect("Could not send job")` panics
AcceptOk ==
    /\ mainPc = "accept"
    /\ Len(jobs) < MaxJobs
    /\ \E c \in Conns :
          IF ReceiverAlive
          THEN /\ jobs' = Append(jobs, NewJob(c))
               /\ queue' = Append(queue, Len(jobs) + 1)
               /\ lastAccept' = "ok"
               /\ UNCHANGED <<mainPc, panicking>>
          ELSE /\ mainPc' = "drop"
               /\ panicking' = TRUE
               /\ lastAccept' = "ok"
               /\ UNCHANGED <<jobs, queue>>
    /\ UNCHANGED <<size, sender, lock, wpc, cur, joinIdx>>
    /\ UNCHANGED decVars

\* Err(e): the error is printed and the loop goes on
AcceptErr ==
    /\ mainPc = "accept"
    /\ lastAccept' = "err"
    /\ UNCHANGED <<mainPc, panicking, size, sender, queue, lock, wpc, cur, jobs, joinIdx>>
    /\ UNCHANGED decVars

\* the iterator ends (`listener.incoming().take(n)`, main.rs line 111): main
\* falls out of the loop and `pool` goes out of scope
LoopEnd ==
    /\ mainPc = "accept"
    /\ mainPc' = "drop"
    /\ UNCHANGED <<panicking, lastAccept, size, sender, queue, lock, wpc, cur, jobs, joinIdx>>
    /\ UNCHANGED decVars

(***************************************************************************)
(* threadpool.rs: Drop for ThreadPool.                                     *)
(***************************************************************************)
\* drop(self.sender.take())
DropSender ==
    /\ mainPc = "drop"
    /\ sender' = FALSE
    /\ joinIdx' = 0
    /\ mainPc' = "join"
    /\ UNCHANGED <<panicking, lastAccept, size, queue, lock, wpc, cur, jobs>>
    /\ UNCHANGED decVars

\* thread.join().expect("Could not join thread"): join returns once the
\* thread has ended, with Err when it ended by a panic; a panic of Drop while
\* the main thread is already unwinding aborts the process
Join ==
    /\ mainPc = "join"
    /\ joinIdx < size
    /\ wpc[joinIdx] \in {"exited", "panicked"}
    /\ IF wpc[joinIdx] = "exited"
       THEN /\ joinIdx' = joinIdx + 1
            /\ UNCHANGED mainPc
       ELSE /\ mainPc' = IF panicking THEN "aborted" ELSE "drop_panicked"
            /\ UNCHANGED joinIdx
    /\ UNCHANGED <<panicking, lastAccept, size, sender, queue, lock, wpc, cur, jobs>>
    /\ UNCHANGED decVars

\* the loop over the workers is over: drop returns, and main with it
DropReturn ==
    /\ mainPc = "join"
    /\ joinIdx = size
    /\ mainPc' = IF panicking THEN "panicked" ELSE "returned"
    /\ UNCHANGED <<panicking, lastAccept, size, sender, queue, lock, wpc, cur, jobs, joinIdx>>
    /\ UNCHANGED decVars

(***************************************************************************)
(* threadpool.rs: the loop of a worker thread (Worker::new).               *)
(***************************************************************************)
\* a mutant of LockAfterRecv: the guard lives until the job has run
LockAfterRecv_held(w) == w

\* the MutexGuard is a temporary of the `let message = ..` statement: it is
\* dropped when recv() has returned, before the match on the message
LockAfterRecv(w) == NoOwner

\* what is left in the channel when thread w ends: the buffer is dropped with
\* the Receiver when w held the last clone of the Arc
QueueAfterEnd(w) ==
    IF \E v \in WorkerIds \ {w} : Alive(v) THEN queue ELSE <<>>

\* receiver.lock()
Lock(w) ==
    /\ ProcessAlive
    /\ wpc[w] = "lock"
    /\ lock = NoOwner
    /\ lock' = w
    /\ wpc' = [wpc EXCEPT ![w] = "recv"]
    /\ UNCHANGED <<mainPc, panicking, lastAccept, size, sender, queue, cur, jobs, joinIdx>>
    /\ UNCHANGED decVars

\* a mutant of RecvJob: the job sent last is received first
RecvJob_last(w) ==
    /\ ProcessAlive
    /\ wpc[w] = "recv"
    /\ queue # <<>>
    /\ LET j == queue[Len(queue)]
       IN  /\ cur' = [cur EXCEPT ![w] = j]
           /\ jobs' = [jobs EXCEPT ![j].receivedBy = @ \cup {w}]
    /\ queue' = SubSeq(queue, 1, Len(queue) - 1)
    /\ lock' = LockAfterRecv(w)
    /\ wpc' = [wpc EXCEPT ![w] = "run"]
    /\ UNCHANGED <<mainPc, panicking, lastAccept, size, sender, joinIdx>>
    /\ UNCHANGED decVars

\* recv() returns Ok(job): Ok(job) => job() is entered
RecvJob(w) ==
    /\ ProcessAlive
    /\ wpc[w] = "recv"
    /\ queue # <<>>
    /\ LET j == Head(queue)
       IN  /\ cur' = [cur EXCEPT ![w] = j]
           /\ jobs' = [jobs EXCEPT ![j].receivedBy = @ \cup {w}]
    /\ queue' = Tail(queue)
    /\ lock' = LockAfterRecv(w)
    /\ wpc' = [wpc EXCEPT ![w] = "run"]
    /\ UNCHANGED <<mainPc, panicking, lastAccept, size, sender, joinIdx>>
    /\ UNCHANGED decVars

\* recv() returns Err: the channel is empty and its Sender is dropped;
\* Err(_) => break
RecvDisconnected(w) ==
    /\ ProcessAlive
    /\ wpc[w] = "recv"
    /\ queue = <<>>
    /\ ~sender
    /\ lock' = NoOwner
    /\ wpc' = [wpc EXCEPT ![w] = "exited"]
    /\ queue' = QueueAfterEnd(w)
    /\ UNCHANGED <<mainPc, panicking, lastAccept, size, sender, cur, jobs, joinIdx>>
    /\ UNCHANGED decVars

\* job() returns: the worker loops
JobReturns(w) ==
    /\ ProcessAlive
    /\ wpc[w] = "run"
    /\ ~job_panics(jobs[cur[w]].conn)
    /\ jobs' = [jobs EXCEPT ![cur[w]].runs = @ + 1, ![cur[w]].result = "ok"]
    /\ cur' = [cur EXCEPT ![w] = NoJob]
    /\ wpc' = [wpc EXCEPT ![w] = "lock"]
    /\ UNCHANGED <<mainPc, panicking, lastAccept, size, sender, queue, lock, joinIdx>>
    /\ UNCHANGED decVars

\* job() panics: nothing in the loop catches it, the thread unwinds and ends
JobPanics(w) ==
    /\ ProcessAlive
    /\ wpc[w] = "run"
    /\ job_panics(jobs[cur[w]].conn)
    /\ jobs' = [jobs EXCEPT ![cur[w]].runs = @ + 1, ![cur[w]].result = "panic"]
    /\ cur' = [cur EXCEPT ![w] = NoJob]
    /\ wpc' = [wpc EXCEPT ![w] = "panicked"]
    /\ lock' = IF lock = w THEN NoOwner ELSE lock
    /\ queue' = QueueAfterEnd(w)
    /\ UNCHANGED <<mainPc, panicking, lastAccept, size, sender, joinIdx>>
    /\ UNCHANGED decVars

(***************************************************************************)
(* http.rs: HttpRequest::try_from, step by step.                           *)
(***************************************************************************)
ReadRequestLine ==
    /\ dec.pc = "request_line"
    /\ dec' = StepRequestLine(input, dec)
    /\ UNCHANGED input
    /\ UNCHANGED poolVars
    /\ UNCHANGED respVars

ReadHeaderLine ==
    /\ dec.pc = "headers"
    /\ dec' = StepHeader(input, dec)
    /\ UNCHANGED input
    /\ UNCHANGED poolVars
    /\ UNCHANGED respVars

ReadBody ==
    /\ dec.pc = "body"
    /\ dec' = StepBody(input, dec)
    /\ UNCHANGED input
    /\ UNCHANGED poolVars
    /\ UNCHANGED respVars

\* HttpResponse::add_compression applied to the response
AddCompression ==
    /\ hc.pc = "built"
    /\ resp' = add_compression(resp, hc.accepted_encodings)
    /\ hc' = [hc EXCEPT !.pc = "compressed"]
    /\ UNCHANGED wire
    /\ UNCHANGED <<input, dec>>
    /\ UNCHANGED poolVars

\* Vec::<u8>::from(response)
Encode ==
    /\ hc.pc \in {"built", "compressed"}
    /\ wire' = HttpResponse_into(resp)
    /\ hc' = [hc EXCEPT !.pc = "encoded"]
    /\ UNCHANGED resp
    /\ UNCHANGED <<input, dec>>
    /\ UNCHANGED poolVars


\* handle_connection: the `?` on HttpRequest::try_from returns the error
DecodeFails ==
    /\ hc.pc = "decode"
    /\ dec.pc = "err"
    /\ hc' = [hc EXCEPT !.pc = "returned_err", !.failure = dec.err]
    /\ UNCHANGED <<resp, wire>>
    /\ UNCHANGED <<input, dec>>
    /\ UNCHANGED poolVars

\* handle_connection: the response is built from the decoded request
Route ==
    /\ hc.pc = "decode"
    /\ request_decoded(dec)
    /\ LET r == route(dec, hc.env)
       IN  /\ resp' = r.resp
           /\ hc' = [hc EXCEPT !.pc = CASE r.kind = "ok" -> "write"
                                         [] r.kind = "err" -> "returned_err"
                                         [] r.kind = "panic" -> "panicked",
                               !.failure = r.failure]
    /\ UNCHANGED wire
    /\ UNCHANGED <<input, dec>>
    /\ UNCHANGED poolVars

\* handle_connection: stream.write_all(&res)?
WriteAll ==
    /\ hc.pc = "write"
    /\ IF hc.env.writable
       THEN /\ wire' = HttpResponse_into(resp)
            /\ hc' = [hc EXCEPT !.pc = "returned_ok"]
       ELSE /\ wire' = wire
            /\ hc' = [hc EXCEPT !.pc = "returned_err"]
    /\ UNCHANGED resp
    /\ UNCHANGED <<input, dec>>
    /\ UNCHANGED poolVars

(***************************************************************************)
(* Specifications.                                                         *)
(***************************************************************************)
PoolInit ==
    /\ mainPc = "build"
    /\ panicking = FALSE
    /\ lastAccept = "none"
    /\ size = 0
    /\ sender = FALSE
    /\ queue = <<>>
    /\ lock = NoOwner
    /\ wpc = [w \in WorkerIds |-> "none"]
    /\ cur = [w \in WorkerIds |-> NoJob]
    /\ jobs = <<>>
    /\ joinIdx = 0

\* the server: main, the pool and its workers
RespIdle ==
    /\ resp = NoResponse
    /\ wire = <<>>
    /\ hc = [pc |-> "idle"]

Init ==
    /\ PoolInit
    /\ input = <<>>
    /\ dec = DecodeStart
    /\ RespIdle

Next ==
    \/ Build
    \/ AcceptOk
    \/ AcceptErr
    \/ LoopEnd
    \/ DropSender
    \/ Join
    \/ DropReturn
    \/ \E w \in WorkerIds : Lock(w)
    \/ \E w \in WorkerIds : RecvJob(w)
    \/ \E w \in WorkerIds : RecvDisconnected(w)
    \/ \E w \in WorkerIds : JobReturns(w)
    \/ \E w \in WorkerIds : JobPanics(w)

Spec == Init /\ [][Next]_vars

\* the decoder alone, on every byte stream of Inputs
DecodeInit ==
    /\ PoolInit
    /\ input \in Inputs
    /\ dec = DecodeStart
    /\ RespIdle

DecodeNext ==
    \/ ReadRequestLine
    \/ ReadHeaderLine
    \/ ReadBody

DecodeSpec == DecodeInit /\ [][DecodeNext]_vars

\* the response functions alone: every response the two constructors build
\* from Statuses and Contents, with every value of AcceptedEncodings
RespInit ==
    /\ PoolInit
    /\ input = <<>>
    /\ dec = DecodeStart
    /\ resp \in Responses
    /\ wire = <<>>
    /\ \E a \in AcceptedEncodings :
          hc = [pc |-> "built", accepted_encodings |-> a, before |-> resp]

RespNext ==
    \/ AddCompression
    \/ Encode

RespSpec == RespInit /\ [][RespNext]_vars

\* one connection handled step by step, on every byte stream of ConnInputs
\* in every environment of Envs
ConnInit ==
    /\ PoolInit
    /\ input \in ConnInputs
    /\ dec = DecodeStart
    /\ resp = NoResponse
    /\ wire = <<>>
    /\ \E e \in Envs : hc = [pc |-> "decode", env |-> e, failure |-> "none"]

ConnNext ==
    \/ ReadRequestLine
    \/ ReadHeaderLine
    \/ ReadBody
    \/ DecodeFails
    \/ Route
    \/ WriteAll

ConnSpec == ConnInit /\ [][ConnNext]_vars

(***************************************************************************)
(* Claims about the pool and the accept loop (specification Spec).         *)
(***************************************************************************)
JobIds == 1..Len(jobs)
InQueue(j) == \E i \in 1..Len(queue) : queue[i] = j
HeldBy(j) == {w \in WorkerIds : cur[w] = j}
Spawned == 0..(size - 1)
ShutdownBegun == mainPc \in {"join", "returned", "panicked", "drop_panicked", "aborted"}

\* C1: every job sent with execute is received by exactly one worker and
\* executed exactly once: none is executed twice, and none is lost (a job is
\* always in the channel, or in the hands of the one worker that received it,
\* or has been executed once).
C1_EachJobExactlyOnce ==
    \A j \in JobIds :
        /\ Cardinality(jobs[j].receivedBy) <= 1
        /\ jobs[j].runs <= 1
        /\ InQueue(j) \/ jobs[j].receivedBy # {}
        /\ (jobs[j].receivedBy # {} /\ HeldBy(j) = {}) => jobs[j].runs = 1

\* C2: a job that fails leaves its worker alive: while the pool accepts
\* jobs, all the workers it was built with are waiting for a job or running
\* one.
C2_WorkersSurviveFailedJobs ==
    mainPc = "accept" => \A w \in Spawned : Alive(w)

\* C3: the dispatcher never crashes: execute never panics, whatever the jobs
\* did, and the accept loop is never left by a panic.
C3_DispatcherNeverCrashes ==
    /\ ~panicking
    /\ mainPc # "aborted"

\* C4: no job sent before shutdown is dropped: once teardown has closed the
\* sender, every job is still in the channel or was received by a worker, a
\* worker that holds a job is running it in a live process, and a worker has
\* broken out of its loop only with the channel closed and empty.
C4_NoJobDroppedAtShutdown ==
    ShutdownBegun =>
        /\ \A j \in JobIds : InQueue(j) \/ jobs[j].receivedBy # {}
        /\ \A w \in WorkerIds : cur[w] # NoJob => (wpc[w] = "run" /\ ProcessAlive)
        /\ \A w \in Spawned : wpc[w] = "exited" => (~sender /\ queue = <<>>)

\* a worker thread that can take a step
CanMove(w) ==
    \/ wpc[w] = "run"
    \/ wpc[w] = "recv" /\ (queue # <<>> \/ ~sender)
    \/ wpc[w] = "lock" /\ lock = NoOwner

\* C5: teardown returns only after every worker has exited, and teardown,
\* once begun, goes on to return: it never ends by a panic instead, and
\* while it waits in join, the thread it waits for has ended or some worker
\* can still move.
C5_TeardownReturnsAfterJoin ==
    /\ mainPc = "returned" => \A w \in Spawned : wpc[w] = "exited"
    /\ mainPc \notin {"drop_panicked", "aborted"}
    /\ (mainPc = "join" /\ joinIdx < size) =>
          (wpc[joinIdx] \in {"exited", "panicked"} \/ \E w \in Spawned : CanMove(w))

\* C6: a worker never holds the lock on the receiver while it runs a job, so
\* running (or blocked) jobs never keep the other workers from the queue:
\* whenever a job is queued and some worker is not running one, a worker can
\* take the lock or receive the job.
C6_LockFreeWhileRunning ==
    /\ \A w \in WorkerIds : wpc[w] = "run" => lock # w
    /\ (ProcessAlive /\ queue # <<>> /\ \E w \in WorkerIds : wpc[w] \in {"lock", "recv"})
          => ENABLED (\E w \in WorkerIds : Lock(w) \/ RecvJob(w))

\* C6, its case: a pool of at least two workers, every one of them running a
\* job at the same time.
C6_AllWorkersRunning ==
    /\ size >= 2
    /\ \A w \in Spawned : wpc[w] = "run"

\* C7: build(0) fails with InvalidPoolSize and spawns nothing; build(size)
\* with size >= 1 succeeds and spawns exactly the workers 0..size-1, each
\* about to wait on the one receiver.
C7_BuildSpawnsExactlySize ==
    [][mainPc = "build" =>
          \/ /\ size' = 0
             /\ mainPc' = "build_err"
             /\ \A w \in WorkerIds : wpc'[w] = "none"
          \/ /\ size' >= 1
             /\ mainPc' = "accept"
             /\ \A w \in WorkerIds :
                   wpc'[w] = IF w \in 0..(size' - 1) THEN "lock" ELSE "none"
             /\ lock' = NoOwner /\ queue' = <<>>]_vars

\* C7, its case: a pool of two workers just built.
C7_PoolBuilt ==
    /\ mainPc = "accept"
    /\ size = 2
    /\ \A w \in Spawned : wpc[w] = "lock"

\* C18: execute never blocks and never fails before shutdown: whatever the
\* workers are doing and however many jobs are queued, a call of execute
\* appends the job to the channel and returns to the accept loop.
C18_ExecuteEnqueuesAndReturns ==
    [][AcceptOk =>
          /\ mainPc' = "accept"
          /\ Len(jobs') = Len(jobs) + 1
          /\ queue' = Append(queue, Len(jobs'))]_vars

\* C19: jobs are received in the order they were sent: the channel holds the
\* jobs in increasing order of submission, every job sent before a job of
\* the channel or before a received job was received itself.
C19_FifoDequeue ==
    /\ \A a, b \in 1..Len(queue) : a < b => queue[a] < queue[b]
    /\ \A i, j \in JobIds :
          (i < j /\ jobs[j].receivedBy # {}) => jobs[i].receivedBy # {}
    /\ \A i, j \in JobIds :
          (i < j /\ InQueue(i)) => InQueue(j)

\* C19, its case: three jobs were sent, the first has been received while the
\* second and the third still wait in the channel.
C19_FirstReceivedOthersQueued ==
    /\ Len(jobs) = 3
    /\ jobs[1].receivedBy # {}
    /\ queue = <<2, 3>>

(***************************************************************************)
(* Claims about request decode (specification DecodeSpec).                 *)
(***************************************************************************)
\* a line without its terminator (CRLF, or a bare LF)
Content(line) ==
    IF ends_with_crlf(line) THEN SubSeq(line, 1, Len(line) - 2)
    ELSE IF line # <<>> /\ line[Len(line)] = LF THEN SubSeq(line, 1, Len(line) - 1)
    ELSE line

\* the lines read in the header section that the loop hands to
\* HttpHeader::try_from: those of more than 2 bytes
HeaderLineIdx == {i \in 2..Len(dec.lines) : Len(dec.lines[i]) > 2}

\* C8: decode returns a request only when the request line and every line
\* of the header section, the blank line that ends it included, ended with
\* CRLF.
C8_EveryLineEndsWithCRLF ==
    dec.pc = "ok" => \A i \in 1..Len(dec.lines) : ends_with_crlf(dec.lines[i])

\* C9 as stated: every header line without ':' makes decode fail with
\* InvalidHeader.
C9_NoColonFailsInvalidHeader ==
    \A i \in HeaderLineIdx :
        find(dec.lines[i], COLON) = 0
            => (dec.pc = "err" /\ dec.err = "InvalidHeader")

\* C9 as amended: every CRLF-terminated header line without ':' makes decode
\* fail with InvalidHeader, and a header line that is not CRLF-terminated
\* makes it fail with MissingCRLFFromLine, with or without a ':'.
C9_TerminatedNoColonFailsInvalidHeader ==
    \A i \in HeaderLineIdx :
        LET line == dec.lines[i]
        IN  /\ (ends_with_crlf(line) /\ find(line, COLON) = 0)
                  => (dec.pc = "err" /\ dec.err = "InvalidHeader")
            /\ ~ends_with_crlf(line)
                  => (dec.pc = "err" /\ dec.err = "MissingCRLFFromLine")

\* C9, its case: decode has read a CRLF-terminated header line without ':'
\* after a header it accepted.
C9_NoColonLineRead ==
    /\ Len(dec.lines) >= 3
    /\ ends_with_crlf(dec.lines[Len(dec.lines)])
    /\ Len(dec.lines[Len(dec.lines)]) > 2
    /\ find(dec.lines[Len(dec.lines)], COLON) = 0
    /\ dec.err = "InvalidHeader"

\* C10 as stated: a request line that splits on ' ' into other than 3 tokens
\* makes decode fail with InvalidRequestLine carrying the line.
C10_TokenCountFailsInvalidRequestLine ==
    Len(dec.lines) >= 1 =>
        LET t == Content(dec.lines[1])
        IN  Len(split(t, SP)) # 3
                => (dec.pc = "err" /\ dec.err = "InvalidRequestLine" /\ dec.errline = t)

\* C10 as amended: a CRLF-terminated request line whose text before the CRLF
\* splits on ' ' into other than 3 tokens makes decode fail with
\* InvalidRequestLine carrying that text; a request line that is not
\* CRLF-terminated makes it fail with MissingCRLFFromLine.
C10_TerminatedTokenCountFailsInvalidRequestLine ==
    Len(dec.lines) >= 1 =>
        LET line == dec.lines[1]
            t == Content(line)
        IN  /\ (ends_with_crlf(line) /\ Len(split(t, SP)) # 3)
                  => (dec.pc = "err" /\ dec.err = "InvalidRequestLine" /\ dec.errline = t)
            /\ ~ends_with_crlf(line)
                  => (dec.pc = "err" /\ dec.err = "MissingCRLFFromLine")

\* C10, its case: decode has read a CRLF-terminated request line of 4 tokens.
C10_FourTokenLineRead ==
    /\ Len(dec.lines) >= 1
    /\ ends_with_crlf(dec.lines[1])
    /\ Len(split(Content(dec.lines[1]), SP)) = 4
    /\ dec.err = "InvalidRequestLine"

\* the values of the Content-Length headers of the decoded header list, in
\* arrival order
IsContentLength(h) == to_lowercase(h.key) = sContentLength
ContentLengths ==
    LET cl == SelectSeq(dec.headers, IsContentLength)
    IN  [i \in 1..Len(cl) |-> parse_usize(cl[i].value).value]
LastContentLength ==
    IF ContentLengths = <<>> THEN 0 ELSE ContentLengths[Len(ContentLengths)]
BodyPresent == dec.body.tag # "None"

\* C11 as stated: a decoded request has a body if and only if some
\* Content-Length header with a value > 0 was seen, and a body that is
\* present is exactly Content-Length bytes long.
C11_BodyIffContentLengthSeen ==
    dec.pc = "ok" =>
        /\ BodyPresent <=> \E i \in 1..Len(ContentLengths) : ContentLengths[i] > 0
        /\ BodyPresent => Len(dec.body.bytes) = LastContentLength

\* C11 as amended: a decoded request has a body if and only if the last
\* Content-Length header seen has a value > 0; without such a header, or
\* with a last value of 0, the body is absent whatever the method, and a
\* body that is present is text of exactly that many bytes.
C11_BodyIffLastContentLengthPositive ==
    dec.pc = "ok" =>
        /\ BodyPresent <=> LastContentLength > 0
        /\ BodyPresent => (dec.body.tag = "Text" /\ Len(dec.body.bytes) = LastContentLength)
        /\ ~BodyPresent => dec.body.bytes = <<>>

\* C11, its case: a POST decoded with a body of 2 bytes.
C11_PostWithBody ==
    /\ dec.pc = "ok"
    /\ dec.method = "Post"
    /\ BodyPresent
    /\ Len(dec.body.bytes) = 2

\* C17: with several Content-Length headers the last one wins: the decoded
\* body is as long as the last value says, and every header read, the
\* Content-Length headers included, is kept in the list in arrival order.
C17_LastContentLengthWins ==
    /\ dec.pc = "ok" => Len(dec.body.bytes) = LastContentLength
    /\ \A i \in 1..Len(dec.headers) :
          LET h == HttpHeader_try_from(dec.lines[i + 1])
          IN  dec.headers[i] = [key |-> h.key, value |-> h.value]
    /\ dec.pc \in {"body", "ok"} => Len(dec.headers) = Len(dec.lines) - 2

\* C17, its case: a request decoded with two Content-Length headers of
\* different values, the first one larger.
C17_TwoContentLengths ==
    /\ dec.pc = "ok"
    /\ Len(ContentLengths) = 2
    /\ ContentLengths[1] > ContentLengths[2]

\* C20: decode ends on a closed connection: it never reads past the end of
\* the stream, a turn of the header loop that read at most 2 bytes (the
\* empty line at the end of the stream included) has left the loop, so the
\* number of lines read is bounded by the bytes consumed.
C20_DecodeTerminates ==
    /\ dec.pos <= Len(input)
    /\ Len(dec.lines) <= dec.pos + 2
    /\ dec.pc = "headers" => \A i \in 2..Len(dec.lines) : Len(dec.lines[i]) > 2
    /\ (dec.pc \notin {"ok", "err"}) => DecodeStep(input, dec) # dec

\* C20, its case: the header loop has read the empty line at the end of the
\* stream and left the loop.
C20_EndOfStreamInHeaders ==
    /\ Len(dec.lines) >= 3
    /\ dec.lines[Len(dec.lines)] = <<>>
    /\ dec.pos = Len(input)
    /\ dec.pc \in {"body", "ok"}


(***************************************************************************)
(* Claims about responses (RespSpec).                                      *)
(***************************************************************************)
\* the headers of r whose key, lower-cased, is k
HeadersNamed(r, k) ==
    SelectSeq(r.headers, LAMBDA h : to_lowercase(h.key) = to_lowercase(k))

\* the input of a gzip frame, read back from it
gunzip(bytes) ==
    IF Len(bytes) >= Len(GzipHeader) + 9 /\ SubSeq(bytes, 1, Len(GzipHeader)) = GzipHeader
    THEN SubSeq(bytes, Len(GzipHeader) + 2, Len(bytes) - 8)
    ELSE <<"not gzip">>

\* the first n lines of bytes from offset pos, as read_line returns them
RECURSIVE ReadLines(_, _, _)
ReadLines(bytes, pos, n) ==
    IF n = 0 THEN <<>>
    ELSE LET l == read_line(bytes, pos)
         IN  <<l>> \o ReadLines(bytes, pos + Len(l), n - 1)

RECURSIVE TotalLen(_)
TotalLen(ls) == IF ls = <<>> THEN 0 ELSE Len(Head(ls)) + TotalLen(Tail(ls))

\* C13: when the Accept-Encoding value has the token gzip, a response with
\* a body B leaves add_compression with the gzip form of B as its body, a
\* Content-Encoding: gzip header, and exactly one Content-Length header,
\* whose value is the length of the compressed body.
C13_GzipReplacesBody ==
    (/\ hc.pc = "compressed"
     /\ gzip_accepted(hc.accepted_encodings)
     /\ hc.before.body.tag # "None") =>
        LET B == hc.before.body.bytes
            cl == HeadersNamed(resp, sContentLengthKey)
        IN  /\ resp.body.tag = "Gzip"
            /\ gunzip(resp.body.bytes) = B
            /\ resp.body.bytes # B
            /\ HeadersNamed(resp, sContentEncodingKey) =
                   <<[key |-> sContentEncodingKey, value |-> sGzip]>>
            /\ Len(cl) = 1
            /\ parse_usize(cl[1].value) = [ok |-> TRUE, value |-> Len(resp.body.bytes)]
            /\ SubSeq(resp.headers, 1, Len(resp.headers) - 2) =
                   SelectSeq(hc.before.headers, NotContentLength)
            /\ resp.status = hc.before.status

\* a body of three bytes was compressed for " gzip " or "deflate, gzip"
C13_BodyCompressed ==
    /\ hc.pc = "compressed"
    /\ hc.before.body.bytes = <<"a","b","c">>
    /\ hc.accepted_encodings \notin {sGzip}
    /\ resp.body.tag = "Gzip"

\* C14: add_compression adds a Content-Encoding header only when it
\* compressed a body, and for an Accept-Encoding value without the token
\* gzip it returns the response as it was.
C14_EncodingOnlyWhenCompressed ==
    hc.pc = "compressed" =>
        /\ HeadersNamed(resp, sContentEncodingKey) # <<>> =>
               (hc.before.body.tag # "None" /\ resp.body.tag = "Gzip")
        /\ ~gzip_accepted(hc.accepted_encodings) => resp = hc.before

\* C16: the bytes of a response are its status line and CRLF, each header
\* as "Key: Value" and CRLF in the order of the header list, one empty line,
\* and then the bytes of the body, when there is one, and nothing after.
C16_EncodeLayout ==
    hc.pc = "encoded" =>
        LET n == Len(resp.headers)
            ls == ReadLines(wire, 0, n + 2)
        IN  /\ ls[1] = sHttpVersion \o <<SP>> \o HttpStatus_as_ref(resp.status) \o CRLF
            /\ \A i \in 1..n :
                   ls[i + 1] = resp.headers[i].key \o <<COLON, SP>>
                                   \o resp.headers[i].value \o CRLF
            /\ ls[n + 2] = CRLF
            /\ SubSeq(wire, TotalLen(ls) + 1, Len(wire)) = body_bytes(resp.body)
            /\ resp.body.tag = "None" => Len(wire) = TotalLen(ls)

\* a compressed response of three headers was turned into bytes
C16_CompressedResponseEncoded ==
    /\ hc.pc = "encoded"
    /\ Len(resp.headers) = 3
    /\ resp.body.tag = "Gzip"
    /\ wire # <<>>


(***************************************************************************)
(* Claims about one connection (ConnSpec).                                 *)
(***************************************************************************)
RECURSIVE Flatten(_)
Flatten(ls) == IF ls = <<>> THEN <<>> ELSE Head(ls) \o Flatten(Tail(ls))

\* the response is being written or has been
ResponseDue == hc.pc \in {"write", "returned_ok"} \/ wire # <<>>

C15_FailureYields500 ==
    (/\ hc.pc \in {"returned_ok", "returned_err", "panicked"}
     /\ dec.pc = "ok"
     /\ hc.failure \in {"CanNotCompress", "IoError"}
     /\ hc.env.writable) =>
        /\ resp.status = "InternalServerError500"
        /\ wire = HttpResponse_into(empty_response("InternalServerError500"))

====
